---- MODULE Spec2Model ----
(***************************************************************************)
(* Model of TextToSQLEngine.process_query (src/engine.py): one invocation  *)
(* builds the prompt, awaits the model completion, extracts and parses the *)
(* first tool call, validates query and rationale, runs the SQL on a       *)
(* scoped connection, fetches at most five rows and returns an envelope.   *)
(*                                                                         *)
(* Texts are sequences of words.  A Python value is a record [t, s]: its   *)
(* type tag and its text.  A dict is a sequence of [k, v] entries in       *)
(* insertion order.                                                        *)
(***************************************************************************)
EXTENDS Integers, Sequences, FiniteSets, TLC

VARIABLES
    pc,             \* position of the invocation in process_query
    requests,       \* invocations started so far
    user_question,  \* argument of process_query
    completion,     \* value of the awaited completion call
    tool_call,      \* arguments text of the first tool call
    callOutcome,    \* what the completion call did, and the message it raised
    sql_query,      \* local sql_query
    rationale,      \* local rationale
    connection,     \* "none", "open" or "closed": the scoped connection
    dbResult,       \* the database's result for the executed statement
    rows,           \* local rows (fetchmany)
    columns,        \* local columns (result.keys())
    envelope,       \* value returned by process_query
    exc,            \* exception that left process_query, if any
    modelCalls,     \* completion calls issued by this invocation
    execAttempts,   \* entries into the execute stage by this invocation
    connects,       \* connections opened by this invocation
    sentSql,        \* SQL texts handed to the database by this invocation
    environ,        \* os.environ: OPENAI_API_KEY, OPENAI_MODEL, DATABASE_PATH
    ctor_pc,        \* position in TextToSQLEngine.__init__, or how it ended
    sql_engine,     \* the engine object: the attributes assigned and their values
    loaded_schema,  \* value of the latest call of _load_schema after construction
    reply,          \* what the caller (chat or run_task) made of the envelope
    sql,            \* wrap_sql: argument sql, a sequence of characters
    wrap_width,     \* wrap_sql: argument width
    wrap_out,       \* wrap_sql: value returned
    results,        \* format_results_as_markdown_table: argument results
    table_out,      \* format_results_as_markdown_table: value returned
    running,        \* the chat task the event loop is executing, or 0
    task,           \* the chat requests: state, saved frame, outcome
    database,       \* how the database answers at present
    sessions,       \* session_manager.sessions
    history_out,    \* get_history: argument and value returned
    added,          \* every add_message call so far, in order
    startup         \* position in the initialisation of the api module

(* the state of one process_query invocation *)
process == <<pc, requests, user_question, completion, tool_call, callOutcome,
             sql_query, rationale, connection, dbResult, rows, columns,
             envelope, exc, modelCalls, execAttempts, connects, sentSql>>

(* the state of the two formatters *)
formatters == <<sql, wrap_width, wrap_out, results, table_out>>

(* the api module: the event loop's tasks, the session store, the start *)
server == <<running, task, database, sessions, history_out, added, startup>>

(* everything outside a running process_query *)
outside == <<server, environ, ctor_pc, sql_engine, loaded_schema, reply,
             sql, wrap_width, wrap_out, results, table_out>>

vars == <<pc, requests, user_question, completion, tool_call, callOutcome, sql_query,
          rationale, connection, dbResult, rows, columns, envelope, exc,
          modelCalls, execAttempts, connects, sentSql, outside>>

----------------------------------------------------------------------------
(* Bounds *)

MaxRequests == 2
MaxRows == 6

(* fetchmany(5) *)
FetchSize == 5

(* longest wrap_sql argument, in characters, and widest width tried *)
MaxSqlLen == 5
MaxWidth == 4

(* most rows in a format_results_as_markdown_table argument *)
MaxTableRows == 2

(* wrap_sql(sql, width=60) *)
DefaultWidth == 60

----------------------------------------------------------------------------
(* Input domains *)

Questions == { <<"top", "customers">>, <<"late", "orders">> }

(* SQL texts the model may write.  ":p" is a word of the form :name, which *)
(* text() reads as a bind parameter; "\\:p" is such a word with the colon  *)
(* escaped by a backslash.                                                 *)
SqlTexts == { <<"SELECT", "x">>, <<"SELECT", ":p">>, <<"SELECT", "\\:p">> }

RationaleTexts == { <<"because">>, <<"top", "customers">> }

PyNone == [t |-> "None", s |-> <<>>]
PyStr(words) == [t |-> "str", s |-> words]
PyInt(words) == [t |-> "int", s |-> words]

(* JSON values of one field of the arguments object; "missing" = no key *)
Missing == [t |-> "missing", s |-> <<>>]
JsonNull == [t |-> "null", s |-> <<>>]
QueryFields ==
    {Missing, JsonNull, PyStr(<<>>), PyInt(<<"0">>), PyInt(<<"7">>)}
        \cup {PyStr(q) : q \in SqlTexts}
RationaleFields ==
    {Missing, JsonNull, PyStr(<<>>), PyInt(<<"7">>)}
        \cup {PyStr(r) : r \in RationaleTexts}

(* Texts of tool_call.function.arguments, by what they denote *)
ObjectTexts ==
    {[syntax |-> "object", query |-> q, rationale |-> r] :
        q \in QueryFields, r \in RationaleFields}
NonObjectTexts ==
    {[syntax |-> k, query |-> Missing, rationale |-> Missing] :
        k \in {"invalid", "list", "string", "number", "null"}}
ArgTexts == ObjectTexts \cup NonObjectTexts

SecondCall ==
    [syntax |-> "object", query |-> PyStr(<<"SELECT", "x">>),
     rationale |-> PyStr(<<"because">>)]
ToolCallLists ==
    {<<>>} \cup {<<a>> : a \in ArgTexts}
           \cup {<<a, SecondCall>> : a \in NonObjectTexts}
Completions ==
    {[choices |-> <<>>]}
        \cup {[choices |-> <<[tool_calls |-> tc]>>] : tc \in ToolCallLists}

ApiErrors == { <<"timeout">>, <<"rate", "limit">> }
DbErrors == { <<"no", "such", "table">>, <<"syntax", "error">> }
Projections == { <<"id">>, <<"id", "name">>, <<"id", "id">> }
Orders == {"asc", "desc"}

NoCompletion == [choices |-> <<>>]
NoToolCall == [syntax |-> "none", query |-> Missing, rationale |-> Missing]
NoException == [type |-> "none", msg |-> <<>>]
NoEnvelope == [pending |-> TRUE]
NoResult == [kind |-> "none", msg |-> <<>>, columns |-> <<>>, rows |-> <<>>]
NoOutcome == [kind |-> "none", msg |-> <<>>]

----------------------------------------------------------------------------
(* Python and library operations used by process_query *)

Exception(type, msg) == [type |-> type, msg |-> msg]

(* Classes derived from Exception.  asyncio.CancelledError derives from    *)
(* BaseException only.                                                     *)
OrdinaryExceptions ==
    {"APIError", "IndexError", "TypeError", "AttributeError",
     "JSONDecodeError", "OperationalError", "StatementError",
     "ResourceClosedError"}

(* `except json.JSONDecodeError as e` *)
CatchesJSONDecodeError(e) == e.type = "JSONDecodeError"

(* execution handler narrowed to the raw driver's error class, which the   *)
(* database layer never raises unwrapped                                   *)
CatchesExec_DriverOnly(e) == e.type = "sqlite3.Error"

(* inner `except Exception as e` around the execution *)
CatchesExecException(e) == e.type \in OrdinaryExceptions

(* outer handler narrowed to the client's own error class *)
CatchesOuter_ApiErrorOnly(e) == e.type = "APIError"

(* outer `except Exception as e` *)
CatchesOuterException(e) == e.type \in OrdinaryExceptions

(* bool(value) *)
Truthy(v) ==
    CASE v.t = "None" -> FALSE
      [] v.t = "str" -> v.s # <<>>
      [] v.t = "int" -> v.s # <<"0">>
      [] OTHER -> TRUE

(* validation by `is None` instead of truthiness *)
IsIncomplete_NoneOnly(q, r) == q.t = "None" \/ r.t = "None"

(* `not sql_query or not rationale` *)
IsIncomplete(q, r) == ~Truthy(q) \/ ~Truthy(r)

(* `if message.tool_calls:` -- None and the empty list are both falsy *)
HasToolCalls(message) == Len(message.tool_calls) > 0

(* json.loads(text): the value the text denotes, or JSONDecodeError *)
JsonLoads(text) ==
    IF text.syntax = "invalid"
    THEN [raised |-> Exception("JSONDecodeError", <<"Expecting", "value">>),
          value |-> [t |-> "none", query |-> Missing, rationale |-> Missing]]
    ELSE [raised |-> NoException,
          value |-> [t |-> IF text.syntax = "object" THEN "dict" ELSE text.syntax,
                     query |-> text.query, rationale |-> text.rationale]]

(* Python value of a JSON field value *)
FromJson(field) ==
    IF field.t \in {"missing", "null"} THEN PyNone ELSE field

(* arguments.get(key): only a dict has .get *)
HasGet(arguments) == arguments.t = "dict"
GetQuery(arguments) == FromJson(arguments.query)
GetRationale(arguments) == FromJson(arguments.rationale)

(* sqlalchemy.text(sql): a TextClause; a non-string argument is rejected *)
TextAccepts(v) == v.t = "str"

(* sqlalchemy.text() reads every word of the form :name as a bind          *)
(* parameter wherever it stands in the statement, and a statement executed *)
(* without a value for one is refused before it reaches the driver.  A     *)
(* colon meant literally has to be written \:name.                         *)
(* bind parameters text() finds in the statement: the :name words *)
BindParams(words) == {i \in 1..Len(words) : words[i] = ":p"}

(* the statement as compiled for the driver: a :name word becomes a        *)
(* placeholder and an escaped \:name word loses its backslash              *)
Compile(words) ==
    [i \in 1..Len(words) |->
        CASE words[i] = ":p" -> "?"
          [] words[i] = "\\:p" -> ":p"
          [] OTHER -> words[i]]

(* fetchall() in place of fetchmany(size) *)
FetchMany_All(all, size) == all

(* result.fetchmany(size): the first size rows of the result *)
FetchMany(all, size) ==
    SubSeq(all, 1, IF Len(all) < size THEN Len(all) ELSE size)

(* d.setdefault(k, v): a key already present keeps its first value *)
DictSet_KeepFirst(d, k, v) ==
    IF \E i \in 1..Len(d) : d[i].k = k
    THEN d
    ELSE Append(d, [k |-> k, v |-> v])

(* d[k] = v on an insertion-ordered dict *)
DictSet(d, k, v) ==
    IF \E i \in 1..Len(d) : d[i].k = k
    THEN [i \in 1..Len(d) |-> IF d[i].k = k THEN [k |-> k, v |-> v] ELSE d[i]]
    ELSE Append(d, [k |-> k, v |-> v])

(* dict(zip(columns, row)) *)
RECURSIVE DictZipFrom(_, _, _, _)
DictZipFrom(d, cols, row, i) ==
    IF i > Len(cols) \/ i > Len(row) THEN d
    ELSE DictZipFrom(DictSet(d, cols[i], row[i]), cols, row, i + 1)
DictZip(cols, row) == DictZipFrom(<<>>, cols, row, 1)

(* [dict(zip(columns, row)) for row in rows] *)
ResultsTable(cols, rs) == [i \in 1..Len(rs) |-> DictZip(cols, rs[i])]

(* the envelopes *)
ErrorEnvelope(msg, detail) == [error |-> [msg |-> msg, detail |-> detail]]
SuccessEnvelope(q, r, res) == [query |-> q, rationale |-> r, results |-> res]

(* the API failure message without str(e) *)
ApiFailure_NoDetail(e) == ErrorEnvelope("OpenAI API call failed: ", <<>>)

ApiFailure(e) == ErrorEnvelope("OpenAI API call failed: ", e.msg)
MalformedArguments(e) == ErrorEnvelope("Failed to parse OpenAI response: ", e.msg)

(* the no-tool-call message with the question interpolated *)
NoToolCallFound_Leaks ==
    ErrorEnvelope("No tool calls found in the response", user_question)

NoToolCallFound == ErrorEnvelope("No tool calls found in the response", <<>>)
IncompleteResult == ErrorEnvelope("Missing query or rationale in the response", <<>>)

(* the execution failure reported next to the query it ran *)
QueryFailed_KeepsQuery(e) ==
    [error |-> [msg |-> "SQL execution failed: ", detail |-> e.msg],
     query |-> sql_query]

QueryFailed(e) == ErrorEnvelope("SQL execution failed: ", e.msg)

(* The database's answer to a statement: n rows in one of two orders, each *)
(* row one cell per projected column; distinct rows have distinct cells.   *)
DbRow(k, width) == [c \in 1..width |-> 10 * k + c]
DbRows(n, order, width) ==
    [i \in 1..n |-> DbRow(IF order = "asc" THEN i ELSE n + 1 - i, width)]
DbResults ==
    {[kind |-> "rows", msg |-> <<>>, columns |-> p,
      rows |-> DbRows(n, o, Len(p))] :
        p \in Projections, n \in 0..MaxRows, o \in Orders}
    \cup {[kind |-> "norows", msg |-> <<>>, columns |-> <<>>, rows |-> <<>>]}

----------------------------------------------------------------------------
(* TextToSQLEngine.__init__ and _load_schema *)

(* an environment variable: set to a value (possibly empty) or not set *)
EnvUnset == [set |-> FALSE, v |-> ""]
EnvSet(value) == [set |-> TRUE, v |-> value]

ApiKeys == {EnvUnset, EnvSet(""), EnvSet("sk-a"), EnvSet("sk-b")}
ModelNames == {EnvUnset, EnvSet(""), EnvSet("gpt-4o"), EnvSet("gpt-4")}
DatabasePaths ==
    {EnvUnset, EnvSet(""), EnvSet("sqlite:///test.db"), EnvSet("windforest.db")}
Environs ==
    [OPENAI_API_KEY : ApiKeys, OPENAI_MODEL : ModelNames,
     DATABASE_PATH : DatabasePaths]

(* os.getenv(name) or the default in place of os.getenv(name, default) *)
Getenv_OrDefault(env, name, default) ==
    IF env[name].set /\ env[name].v # "" THEN env[name].v ELSE default

(* os.getenv(name, default) *)
Getenv(env, name, default) ==
    IF env[name].set THEN env[name].v ELSE default

(* `if not api_key:` with api_key = os.getenv("OPENAI_API_KEY") *)
ApiKeyMissing(env) ==
    ~env["OPENAI_API_KEY"].set \/ env["OPENAI_API_KEY"].v = ""

(* create_engine(url) accepts a database URL of the form dialect://...     *)
UrlAccepted(url) == url \in {"sqlite:///data/windforest.db", "sqlite:///test.db"}

(* a schema text that carries the number of requests served so far *)
load_schema_Stamped ==
    <<"--", "Database", "Schema", "CREATE", "TABLE", "customers", "(", "id",
      "INTEGER", "PRIMARY", "KEY", ")", ";", ToString(requests)>>

(* the text _load_schema returns: a literal (the DDL, abridged) *)
load_schema ==
    <<"--", "Database", "Schema", "CREATE", "TABLE", "customers", "(", "id",
      "INTEGER", "PRIMARY", "KEY", ")", ";">>

NoEngine ==
    [attrs |-> {}, client |-> "", engine |-> "", model |-> "", schema |-> <<>>]

(* the engine a completed __init__ leaves *)
NewEngine(env) ==
    [attrs |-> {"client", "engine", "model", "schema"},
     client |-> env["OPENAI_API_KEY"].v,
     engine |-> Getenv(env, "DATABASE_PATH", "sqlite:///data/windforest.db"),
     model |-> Getenv(env, "OPENAI_MODEL", "gpt-4"),
     schema |-> load_schema]

(* the environments of the serving process in the process_query model *)
ServingEnvirons ==
    {env \in Environs :
        /\ env["OPENAI_API_KEY"] = EnvSet("sk-a")
        /\ env["DATABASE_PATH"] = EnvUnset
        /\ env["OPENAI_MODEL"] \in {EnvUnset, EnvSet("gpt-4o")}}

NoReply == [by |-> "none", value |-> <<>>, reads |-> {}]
NotReturned == [done |-> FALSE, text |-> <<>>]

(* no wrap_sql or format_results_as_markdown_table call under way *)
FormattersIdle ==
    /\ sql = <<>>
    /\ wrap_width = 0
    /\ wrap_out = NotReturned
    /\ results = <<>>
    /\ table_out = NotReturned

(* no invocation of process_query yet *)
ProcessIdle ==
    /\ pc = "idle"
    /\ requests = 0
    /\ user_question = <<>>
    /\ completion = NoCompletion
    /\ tool_call = NoToolCall
    /\ callOutcome = NoOutcome
    /\ sql_query = PyNone
    /\ rationale = PyNone
    /\ connection = "none"
    /\ dbResult = NoResult
    /\ rows = <<>>
    /\ columns = <<>>
    /\ envelope = NoEnvelope
    /\ exc = NoException
    /\ modelCalls = 0
    /\ execAttempts = 0
    /\ connects = 0
    /\ sentSql = <<>>

----------------------------------------------------------------------------
(* api.py and session.py: the values of an idle server *)

(* most chat requests in flight, and most calls made on a session store *)
MaxTasks == 2
MaxCalls == 4

TaskIds == 1..MaxTasks
SessionIds == {"s1", "s2"}

(* the locals of a process_query invocation, as a coroutine frame *)
IdleFrame ==
    [pc |-> "idle", user_question |-> <<>>, completion |-> NoCompletion,
     tool_call |-> NoToolCall, callOutcome |-> NoOutcome, sql_query |-> PyNone,
     rationale |-> PyNone, connection |-> "none", dbResult |-> NoResult,
     rows |-> <<>>, columns |-> <<>>, envelope |-> NoEnvelope,
     exc |-> NoException, modelCalls |-> 0, execAttempts |-> 0,
     connects |-> 0, sentSql |-> <<>>]

NoArrival == [kind |-> "none", value |-> <<>>]
NoDatabase == [connect |-> <<"up">>, answer |-> NoResult]
NewTask ==
    [state |-> "new", session |-> "", question |-> <<>>, arrival |-> NoArrival,
     cancel |-> FALSE, saved |-> IdleFrame, final |-> IdleFrame,
     saw |-> NoDatabase, returned |-> <<>>]

(* SessionManager.__init__: self.sessions = {} *)
NoSessions == [id \in {} |-> <<>>]
NoHistory == [done |-> FALSE, id |-> "", value |-> <<>>]

(* no request has been received and the store is empty *)
ServerIdle ==
    /\ running = 0
    /\ task = [t \in TaskIds |-> NewTask]
    /\ database = NoDatabase
    /\ sessions = NoSessions
    /\ history_out = NoHistory
    /\ added = <<>>
    /\ startup = "none"

----------------------------------------------------------------------------
(* formatters.py: wrap_sql *)

Chars == {"a", "b", " ", "\n"}
Whitespace == {" ", "\n"}

(* all character sequences of length at most n *)
RECURSIVE StringsUpTo(_)
StringsUpTo(n) ==
    IF n = 0 THEN {<<>>}
    ELSE LET shorter == StringsUpTo(n - 1) IN
         shorter \cup {Append(t, c) : t \in {u \in shorter : Len(u) = n - 1},
                                      c \in Chars}

(* sql.split(): the maximal runs of non-whitespace characters *)
RECURSIVE SplitFrom(_, _, _, _)
SplitFrom(text, i, words, word) ==
    IF i > Len(text)
    THEN IF word # <<>> THEN Append(words, word) ELSE words
    ELSE IF text[i] \in Whitespace
    THEN SplitFrom(text, i + 1,
                   IF word # <<>> THEN Append(words, word) ELSE words, <<>>)
    ELSE SplitFrom(text, i + 1, words, Append(word, text[i]))
Split(text) == SplitFrom(text, 1, <<>>, <<>>)

(* sep.join(parts) on character or token sequences *)
RECURSIVE JoinFrom(_, _, _, _)
JoinFrom(sep, parts, i, acc) ==
    IF i > Len(parts) THEN acc
    ELSE JoinFrom(sep, parts, i + 1,
                  IF i = 1 THEN parts[i] ELSE acc \o sep \o parts[i])
Join(sep, parts) == JoinFrom(sep, parts, 1, <<>>)

(* text.split(sep): the pieces between the separators, empty ones kept *)
RECURSIVE SplitOnFrom(_, _, _, _, _)
SplitOnFrom(text, sep, i, pieces, piece) ==
    IF i > Len(text) THEN Append(pieces, piece)
    ELSE IF text[i] = sep
    THEN SplitOnFrom(text, sep, i + 1, Append(pieces, piece), <<>>)
    ELSE SplitOnFrom(text, sep, i + 1, pieces, Append(piece, text[i]))
SplitOn(text, sep) == SplitOnFrom(text, sep, 1, <<>>, <<>>)

(* the loop with the separating space left out of the test *)
RECURSIVE WrapFrom_NoSpace(_, _, _, _, _, _)
WrapFrom_NoSpace(words, w, i, lines, current_line, current_length) ==
    IF i > Len(words)
    THEN IF current_line # <<>> THEN Append(lines, current_line) ELSE lines
    ELSE IF current_length + Len(words[i]) <= w
    THEN WrapFrom_NoSpace(words, w, i + 1, lines, Append(current_line, words[i]),
                          current_length + Len(words[i]) + 1)
    ELSE WrapFrom_NoSpace(words, w, i + 1, Append(lines, current_line),
                          <<words[i]>>, Len(words[i]))

(* the for loop of wrap_sql and the `if current_line:` after it; a line is *)
(* kept as the list of the words that " ".join puts on it                  *)
RECURSIVE WrapFrom(_, _, _, _, _, _)
WrapFrom(words, w, i, lines, current_line, current_length) ==
    IF i > Len(words)
    THEN IF current_line # <<>> THEN Append(lines, current_line) ELSE lines
    ELSE IF current_length + Len(words[i]) + 1 <= w
    THEN WrapFrom(words, w, i + 1, lines, Append(current_line, words[i]),
                  current_length + Len(words[i]) + 1)
    ELSE WrapFrom(words, w, i + 1, Append(lines, current_line), <<words[i]>>,
                  Len(words[i]))
WrapLines(words, w) == WrapFrom(words, w, 1, <<>>, <<>>, 0)

(* every line is cut to the width *)
wrap_sql_CutsToWidth(text, w) ==
    LET lines == WrapLines(Split(text), w)
        joined == [i \in 1..Len(lines) |-> Join(<<" ">>, lines[i])]
    IN  Join(<<"\n">>,
             [i \in 1..Len(joined) |->
                 IF Len(joined[i]) > w THEN SubSeq(joined[i], 1, w) ELSE joined[i]])

(* wrap_sql(sql, width) on a character sequence *)
wrap_sql(text, w) ==
    LET lines == WrapLines(Split(text), w) IN
    Join(<<"\n">>, [i \in 1..Len(lines) |-> Join(<<" ">>, lines[i])])

InitWrap ==
    /\ ProcessIdle
    /\ ServerIdle
    /\ environ \in {env \in ServingEnvirons : ~env["OPENAI_MODEL"].set}
    /\ ctor_pc = "constructed"
    /\ sql_engine = NewEngine(environ)
    /\ loaded_schema = <<>>
    /\ reply = NoReply
    /\ sql \in StringsUpTo(MaxSqlLen)
    /\ wrap_width \in 0..MaxWidth
    /\ wrap_out = NotReturned
    /\ results = <<>>
    /\ table_out = NotReturned

(* a call wrap_sql(sql, wrap_width) returns *)
WrapSql ==
    /\ ~wrap_out.done
    /\ wrap_out' = [done |-> TRUE, text |-> wrap_sql(sql, wrap_width)]
    /\ UNCHANGED <<server, process, environ, ctor_pc, sql_engine,
                   loaded_schema, reply,
                   sql, wrap_width, results, table_out>>

NextWrap == WrapSql

SpecWrap == InitWrap /\ [][NextWrap]_vars

----------------------------------------------------------------------------
(* formatters.py: format_cell_value and format_results_as_markdown_table.  *)
(* A text is a sequence of tokens; "\n" and "|" are tokens of their own.   *)
(* A cell value is a record [t, s]: its type and the tokens of str(value). *)

Cells ==
    { [t |-> "int", s |-> <<"1234">>],
      [t |-> "float", s |-> <<"2.5">>],
      [t |-> "str", s |-> <<"Ann">>],
      [t |-> "str", s |-> <<"Main", "St", "\n", "Springfield">>],
      [t |-> "str", s |-> <<"a", "|", "b">>],
      [t |-> "None", s |-> <<"None">>] }

(* f"{value:,}" on the decimal digits of an int *)
Thousands(digits) ==
    IF Len(digits) <= 3 THEN digits
    ELSE CASE digits = "1234" -> "1,234"
           [] OTHER -> digits

(* f"{value:,.2f}" on the repr of a float *)
TwoDecimals(repr) ==
    CASE repr = "2.5" -> "2.50"
      [] OTHER -> repr

format_cell_value(value) ==
    IF value.t = "float" THEN <<TwoDecimals(value.s[1])>>
    ELSE IF value.t = "int" THEN <<Thousands(value.s[1])>>
    ELSE value.s

(* list(results[0].keys()) *)
Keys(d) == [i \in 1..Len(d) |-> d[i].k]

(* row[col] *)
DictGet(d, key) == (CHOOSE i \in 1..Len(d) : d[i].k = key)

(* "| " + " | ".join(cells) + " |\n" *)
TableLine(cells) == <<"|">> \o Join(<<"|">>, cells) \o <<"|", "\n">>

RECURSIVE DataLinesFrom(_, _, _, _)
DataLinesFrom(res, headers, i, acc) ==
    IF i > Len(res) THEN acc
    ELSE DataLinesFrom(res, headers, i + 1,
            acc \o TableLine([h \in 1..Len(headers) |->
                      format_cell_value(res[i][DictGet(res[i], headers[h])].v)]))

format_results_as_markdown_table(res) ==
    IF res = <<>>
    THEN <<"\n", "**Results:**", "No results found.">>
    ELSE LET headers == Keys(res[1])
             table == TableLine([h \in 1..Len(headers) |-> <<headers[h]>>])
                      \o TableLine([h \in 1..Len(headers) |-> <<"---">>])
                      \o DataLinesFrom(res, headers, 1, <<>>)
         IN  <<"\n", "**Results:**", "\n">> \o table

(* the results lists process_query can hand over: every row a dict over    *)
(* the same column names                                                   *)
TableColumns == { <<"id">>, <<"name", "address">> }
TableInputs ==
    UNION { { [i \in 1..n |-> [j \in 1..Len(cols) |->
                                  [k |-> cols[j], v |-> cells[i][j]]]] :
                cells \in [1..n -> [1..Len(cols) -> Cells]] } :
            cols \in TableColumns, n \in 0..MaxTableRows }

InitTable ==
    /\ ProcessIdle
    /\ ServerIdle
    /\ environ \in {env \in ServingEnvirons : ~env["OPENAI_MODEL"].set}
    /\ ctor_pc = "constructed"
    /\ sql_engine = NewEngine(environ)
    /\ loaded_schema = <<>>
    /\ reply = NoReply
    /\ sql = <<>>
    /\ wrap_width = 0
    /\ wrap_out = NotReturned
    /\ results \in TableInputs
    /\ table_out = NotReturned

(* a call format_results_as_markdown_table(results) returns *)
FormatTable ==
    /\ ~table_out.done
    /\ table_out' = [done |-> TRUE,
                     text |-> format_results_as_markdown_table(results)]
    /\ UNCHANGED <<server, process, environ, ctor_pc, sql_engine,
                   loaded_schema, reply,
                   sql, wrap_width, wrap_out, results>>

NextTable == FormatTable

SpecTable == InitTable /\ [][NextTable]_vars

----------------------------------------------------------------------------
(* process_query *)

(* the serving process: the engine is constructed, nothing is in flight *)
Init ==
    /\ ProcessIdle
    /\ ServerIdle
    /\ environ \in ServingEnvirons
    /\ ctor_pc = "constructed"
    /\ sql_engine = NewEngine(environ)
    /\ loaded_schema = <<>>
    /\ reply = NoReply
    /\ FormattersIdle

----------------------------------------------------------------------------
(* TextToSQLEngine.__init__, statement by statement *)

InitConstruct ==
    /\ ProcessIdle
    /\ ServerIdle
    /\ environ \in Environs
    /\ ctor_pc = "init"
    /\ sql_engine = NoEngine
    /\ loaded_schema = <<>>
    /\ reply = NoReply
    /\ FormattersIdle

(* api_key = os.getenv("OPENAI_API_KEY"); if not api_key: raise ValueError *)
CtorApiKey ==
    /\ ctor_pc = "init"
    /\ ctor_pc' = IF ApiKeyMissing(environ) THEN "ValueError" ELSE "client"
    /\ UNCHANGED <<server, process, formatters, environ, sql_engine,
                   loaded_schema, reply>>

(* self.client = AsyncOpenAI(api_key=api_key) *)
CtorClient ==
    /\ ctor_pc = "client"
    /\ sql_engine' = [sql_engine EXCEPT !.attrs = @ \cup {"client"},
                                        !.client = environ["OPENAI_API_KEY"].v]
    /\ ctor_pc' = "database"
    /\ UNCHANGED <<server, process, formatters, environ, loaded_schema, reply>>

(* db_path = os.getenv("DATABASE_PATH", ...); self.engine = create_engine(db_path) *)
CtorDatabase ==
    /\ ctor_pc = "database"
    /\ LET db_path == Getenv(environ, "DATABASE_PATH",
                             "sqlite:///data/windforest.db") IN
       IF UrlAccepted(db_path)
       THEN /\ sql_engine' = [sql_engine EXCEPT !.attrs = @ \cup {"engine"},
                                               !.engine = db_path]
            /\ ctor_pc' = "model"
       ELSE /\ ctor_pc' = "ArgumentError"
            /\ UNCHANGED sql_engine
    /\ UNCHANGED <<server, process, formatters, environ, loaded_schema, reply>>

(* self.model = os.getenv("OPENAI_MODEL", "gpt-4") *)
CtorModel ==
    /\ ctor_pc = "model"
    /\ sql_engine' = [sql_engine EXCEPT !.attrs = @ \cup {"model"},
                           !.model = Getenv(environ, "OPENAI_MODEL", "gpt-4")]
    /\ ctor_pc' = "schema"
    /\ UNCHANGED <<server, process, formatters, environ, loaded_schema, reply>>

(* self.schema = self._load_schema() *)
CtorSchema ==
    /\ ctor_pc = "schema"
    /\ sql_engine' = [sql_engine EXCEPT !.attrs = @ \cup {"schema"},
                                        !.schema = load_schema]
    /\ ctor_pc' = "constructed"
    /\ UNCHANGED <<server, process, formatters, environ, loaded_schema, reply>>

NextConstruct ==
    \/ CtorApiKey
    \/ CtorClient
    \/ CtorDatabase
    \/ CtorModel
    \/ CtorSchema

SpecConstruct == InitConstruct /\ [][NextConstruct]_vars

----------------------------------------------------------------------------
(* api.py, lines 39-44: the initialisation of the module *)

(* `def init_tracing():` declares no parameter; api.py passes sql_engine *)
init_tracing_parameters == <<>>
init_tracing_arguments == <<"sql_engine">>

(* a call with positional arguments binds them to the parameters in order; *)
(* more arguments than parameters is a TypeError                           *)
CallAccepted(parameters, arguments) == Len(arguments) <= Len(parameters)

(* the module is being imported: line 40 is constructing the engine *)
InitStartup ==
    /\ ProcessIdle
    /\ FormattersIdle
    /\ environ \in Environs
    /\ ctor_pc = "init"
    /\ sql_engine = NoEngine
    /\ loaded_schema = <<>>
    /\ reply = NoReply
    /\ running = 0
    /\ task = [t \in TaskIds |-> NewTask]
    /\ database = NoDatabase
    /\ sessions = NoSessions
    /\ history_out = NoHistory
    /\ added = <<>>
    /\ startup = "engine"

(* TextToSQLEngine() raised: the import fails with that exception *)
StartupEngineFails ==
    /\ startup = "engine"
    /\ ctor_pc \in {"ValueError", "ArgumentError"}
    /\ startup' = ctor_pc
    /\ UNCHANGED <<process, formatters, environ, ctor_pc, sql_engine,
                   loaded_schema, reply, running, task, database, sessions,
                   history_out, added>>

(* line 41: init_tracing(sql_engine) *)
StartupTracing ==
    /\ startup = "engine"
    /\ ctor_pc = "constructed"
    /\ startup' = IF CallAccepted(init_tracing_parameters, init_tracing_arguments)
                  THEN "sessions" ELSE "TypeError"
    /\ UNCHANGED <<process, formatters, environ, ctor_pc, sql_engine,
                   loaded_schema, reply, running, task, database, sessions,
                   history_out, added>>

NextStartup ==
    \/ CtorApiKey
    \/ CtorClient
    \/ CtorDatabase
    \/ CtorModel
    \/ CtorSchema
    \/ StartupEngineFails
    \/ StartupTracing

SpecStartup == InitStartup /\ [][NextStartup]_vars

----------------------------------------------------------------------------
(* process_query, statement by statement *)

(* `return env` *)
Return(env) ==
    /\ pc' = "returned"
    /\ envelope' = env
    /\ exc' = NoException

(* `raise e` inside the outer try; inParse / inExec tell whether the       *)
(* statement is also inside the try around json.loads or around the        *)
(* execution.  The innermost handler that catches e returns its envelope.  *)
Raise(e, inParse, inExec) ==
    IF inParse /\ CatchesJSONDecodeError(e) THEN Return(MalformedArguments(e))
    ELSE IF inExec /\ CatchesExecException(e) THEN Return(QueryFailed(e))
    ELSE IF CatchesOuterException(e) THEN Return(ApiFailure(e))
    ELSE /\ pc' = "raised"
         /\ envelope' = NoEnvelope
         /\ exc' = e

(* a call of process_query(q): the prompt is composed from the date, the   *)
(* schema, the business context and the question                           *)
Invoke(q) ==
    /\ pc \in {"idle", "returned", "raised"}
    /\ requests < MaxRequests
    /\ requests' = requests + 1
    /\ user_question' = q
    /\ pc' = "call"
    /\ completion' = NoCompletion
    /\ tool_call' = NoToolCall
    /\ callOutcome' = NoOutcome
    /\ sql_query' = PyNone
    /\ rationale' = PyNone
    /\ connection' = "none"
    /\ dbResult' = NoResult
    /\ rows' = <<>>
    /\ columns' = <<>>
    /\ envelope' = NoEnvelope
    /\ exc' = NoException
    /\ modelCalls' = 0
    /\ execAttempts' = 0
    /\ connects' = 0
    /\ sentSql' = <<>>
    /\ reply' = NoReply
    /\ UNCHANGED <<server, environ, ctor_pc, sql_engine, loaded_schema,
                   sql, wrap_width, wrap_out, results, table_out>>

(* the connection is opened before the completion call is awaited *)
CallModel_ConnectsFirst ==
    /\ pc = "call"
    /\ modelCalls' = modelCalls + 1
    /\ connects' = connects + 1
    /\ connection' = "open"
    /\ pc' = "await"
    /\ UNCHANGED <<outside, requests, user_question, completion, tool_call, callOutcome,
                   sql_query, rationale, dbResult, rows, columns,
                   envelope, exc, execAttempts, sentSql>>

(* client.chat.completions.create(...) is called and awaited *)
CallModel ==
    /\ pc = "call"
    /\ modelCalls' = modelCalls + 1
    /\ pc' = "await"
    /\ UNCHANGED <<outside, requests, user_question, completion, tool_call, callOutcome,
                   sql_query, rationale, connection, dbResult, rows, columns,
                   envelope, exc, execAttempts, connects, sentSql>>

(* the awaited call returns a completion *)
ModelResponds(c) ==
    /\ pc = "await"
    /\ completion' = c
    /\ callOutcome' = [kind |-> "response", msg |-> <<>>]
    /\ pc' = "extract"
    /\ UNCHANGED <<outside, requests, user_question, tool_call, sql_query, rationale,
                   connection, dbResult, rows, columns, envelope, exc,
                   modelCalls, execAttempts, connects, sentSql>>

(* the awaited call raises an API error *)
ModelRaises(detail) ==
    /\ pc = "await"
    /\ callOutcome' = [kind |-> "raised", msg |-> detail]
    /\ Raise(Exception("APIError", detail), FALSE, FALSE)
    /\ UNCHANGED <<outside, requests, user_question, completion, tool_call, sql_query,
                   rationale, connection, dbResult, rows, columns,
                   modelCalls, execAttempts, connects, sentSql>>

(* the task is cancelled while suspended in the await *)
Cancel ==
    /\ pc = "await"
    /\ callOutcome' = [kind |-> "cancelled", msg |-> <<>>]
    /\ Raise(Exception("CancelledError", <<>>), FALSE, FALSE)
    /\ UNCHANGED <<outside, requests, user_question, completion, tool_call, sql_query,
                   rationale, connection, dbResult, rows, columns,
                   modelCalls, execAttempts, connects, sentSql>>

(* message = completion.choices[0].message; the first tool call if any *)
Extract ==
    /\ pc = "extract"
    /\ IF Len(completion.choices) = 0
       THEN /\ Raise(Exception("IndexError",
                               <<"list", "index", "out", "of", "range">>),
                     FALSE, FALSE)
            /\ UNCHANGED tool_call
       ELSE LET message == completion.choices[1] IN
            IF HasToolCalls(message)
            THEN IF Len(message.tool_calls) = 0
                 THEN /\ Raise(Exception("IndexError",
                                   <<"list", "index", "out", "of", "range">>),
                               FALSE, FALSE)
                      /\ UNCHANGED tool_call
                 ELSE /\ tool_call' = message.tool_calls[1]
                      /\ pc' = "parse"
                      /\ UNCHANGED <<envelope, exc>>
            ELSE /\ Return(NoToolCallFound)
                 /\ UNCHANGED tool_call
    /\ UNCHANGED <<outside, requests, user_question, completion, callOutcome, sql_query,
                   rationale, connection, dbResult, rows, columns,
                   modelCalls, execAttempts, connects, sentSql>>

(* arguments = json.loads(...); sql_query, rationale = arguments.get(...) *)
Parse ==
    /\ pc = "parse"
    /\ LET loaded == JsonLoads(tool_call) IN
       IF loaded.raised # NoException
       THEN /\ Raise(loaded.raised, TRUE, FALSE)
            /\ UNCHANGED <<sql_query, rationale>>
       ELSE IF ~HasGet(loaded.value)
       THEN /\ Raise(Exception("AttributeError",
                               <<loaded.value.t, "has", "no", "attribute", "get">>),
                     TRUE, FALSE)
            /\ UNCHANGED <<sql_query, rationale>>
       ELSE /\ sql_query' = GetQuery(loaded.value)
            /\ rationale' = GetRationale(loaded.value)
            /\ pc' = "validate"
            /\ UNCHANGED <<envelope, exc>>
    /\ UNCHANGED <<outside, requests, user_question, completion, tool_call, callOutcome,
                   connection, dbResult, rows, columns,
                   modelCalls, execAttempts, connects, sentSql>>

(* the validation builds the error envelope but does not return *)
Validate_FallsThrough ==
    /\ pc = "validate"
    /\ IF IsIncomplete(sql_query, rationale)
       THEN /\ envelope' = IncompleteResult
            /\ pc' = "connect"
            /\ UNCHANGED exc
       ELSE /\ pc' = "connect"
            /\ UNCHANGED <<envelope, exc>>
    /\ UNCHANGED <<outside, requests, user_question, completion, tool_call, callOutcome,
                   sql_query, rationale, connection, dbResult, rows, columns,
                   modelCalls, execAttempts, connects, sentSql>>

(* `if not sql_query or not rationale: return {"error": ...}` *)
Validate ==
    /\ pc = "validate"
    /\ IF IsIncomplete(sql_query, rationale)
       THEN Return(IncompleteResult)
       ELSE /\ pc' = "connect"
            /\ UNCHANGED <<envelope, exc>>
    /\ UNCHANGED <<outside, requests, user_question, completion, tool_call, callOutcome,
                   sql_query, rationale, connection, dbResult, rows, columns,
                   modelCalls, execAttempts, connects, sentSql>>

(* `with self.engine.connect() as connection:` succeeds *)
Connect ==
    /\ pc = "connect"
    /\ execAttempts' = execAttempts + 1
    /\ connects' = connects + 1
    /\ connection' = "open"
    /\ pc' = "execute"
    /\ UNCHANGED <<outside, requests, user_question, completion, tool_call, callOutcome,
                   sql_query, rationale, dbResult, rows, columns, envelope, exc,
                   modelCalls, sentSql>>

(* engine.connect() raises: no connection is held *)
ConnectFails(detail) ==
    /\ pc = "connect"
    /\ execAttempts' = execAttempts + 1
    /\ Raise(Exception("OperationalError", detail), FALSE, TRUE)
    /\ UNCHANGED <<outside, requests, user_question, completion, tool_call, callOutcome,
                   sql_query, rationale, connection, dbResult, rows, columns,
                   modelCalls, connects, sentSql>>

(* text(sql_query) or the binding of its parameters raises before any SQL  *)
(* reaches the database; the with block closes the connection              *)
ExecuteRejected ==
    /\ pc = "execute"
    /\ \/ /\ ~TextAccepts(sql_query)
          /\ Raise(Exception("TypeError",
                             <<"expected", "string", "or", "bytes-like", "object">>),
                   FALSE, TRUE)
       \/ /\ TextAccepts(sql_query)
          /\ BindParams(sql_query.s) # {}
          /\ Raise(Exception("StatementError",
                             <<"A", "value", "is", "required", "for", "bind",
                               "parameter">>),
                   FALSE, TRUE)
    /\ connection' = "closed"
    /\ UNCHANGED <<outside, requests, user_question, completion, tool_call, callOutcome,
                   sql_query, rationale, dbResult, rows, columns,
                   modelCalls, execAttempts, connects, sentSql>>

(* the connection is closed on the success path only *)
ExecuteFails_NoClose(detail) ==
    /\ pc = "execute"
    /\ TextAccepts(sql_query)
    /\ BindParams(sql_query.s) = {}
    /\ sentSql' = Append(sentSql, Compile(sql_query.s))
    /\ dbResult' = [kind |-> "error", msg |-> detail, columns |-> <<>>,
                     rows |-> <<>>]
    /\ Raise(Exception("OperationalError", detail), FALSE, TRUE)
    /\ UNCHANGED <<outside, requests, user_question, completion, tool_call, callOutcome,
                   sql_query, rationale, connection, rows, columns,
                   modelCalls, execAttempts, connects>>

(* a failed statement is sent once more before the failure is reported *)
ExecuteFails_Retry(detail) ==
    /\ pc = "execute"
    /\ TextAccepts(sql_query)
    /\ BindParams(sql_query.s) = {}
    /\ sentSql' = Append(sentSql, Compile(sql_query.s))
    /\ dbResult' = [kind |-> "error", msg |-> detail, columns |-> <<>>,
                     rows |-> <<>>]
    /\ IF Len(sentSql) = 0
       THEN UNCHANGED <<pc, envelope, exc, connection>>
       ELSE /\ Raise(Exception("OperationalError", detail), FALSE, TRUE)
            /\ connection' = "closed"
    /\ UNCHANGED <<outside, requests, user_question, completion, tool_call, callOutcome,
                   sql_query, rationale, rows, columns,
                   modelCalls, execAttempts, connects>>

(* connection.execute(text(sql_query)) reaches the database, which raises *)
ExecuteFails(detail) ==
    /\ pc = "execute"
    /\ TextAccepts(sql_query)
    /\ BindParams(sql_query.s) = {}
    /\ sentSql' = Append(sentSql, Compile(sql_query.s))
    /\ dbResult' = [kind |-> "error", msg |-> detail, columns |-> <<>>,
                     rows |-> <<>>]
    /\ Raise(Exception("OperationalError", detail), FALSE, TRUE)
    /\ connection' = "closed"
    /\ UNCHANGED <<outside, requests, user_question, completion, tool_call, callOutcome,
                   sql_query, rationale, rows, columns,
                   modelCalls, execAttempts, connects>>

(* connection.execute(text(sql_query)) reaches the database, which answers *)
Execute(r) ==
    /\ pc = "execute"
    /\ TextAccepts(sql_query)
    /\ BindParams(sql_query.s) = {}
    /\ sentSql' = Append(sentSql, Compile(sql_query.s))
    /\ dbResult' = r
    /\ pc' = "fetch"
    /\ UNCHANGED <<outside, requests, user_question, completion, tool_call, callOutcome,
                   sql_query, rationale, connection, rows, columns, envelope, exc,
                   modelCalls, execAttempts, connects>>

(* rows = result.fetchmany(5); columns = result.keys(); the with block     *)
(* ends.  A result that returns no rows raises on fetchmany.               *)
Fetch ==
    /\ pc = "fetch"
    /\ IF dbResult.kind = "norows"
       THEN /\ Raise(Exception("ResourceClosedError",
                               <<"This", "result", "object", "does", "not",
                                 "return", "rows">>),
                     FALSE, TRUE)
            /\ UNCHANGED <<rows, columns>>
       ELSE /\ rows' = FetchMany(dbResult.rows, FetchSize)
            /\ columns' = dbResult.columns
            /\ pc' = "format"
            /\ UNCHANGED <<envelope, exc>>
    /\ connection' = "closed"
    /\ UNCHANGED <<outside, requests, user_question, completion, tool_call, callOutcome,
                   sql_query, rationale, dbResult,
                   modelCalls, execAttempts, connects, sentSql>>

(* results_table is built and the success envelope returned *)
Format ==
    /\ pc = "format"
    /\ Return(SuccessEnvelope(sql_query, rationale, ResultsTable(columns, rows)))
    /\ UNCHANGED <<outside, requests, user_question, completion, tool_call, callOutcome,
                   sql_query, rationale, connection, dbResult, rows, columns,
                   modelCalls, execAttempts, connects, sentSql>>

----------------------------------------------------------------------------
(* The callers of process_query: chat (api.py) and run_task                *)
(* (.multinear/task_runner.py), from the point where the envelope is back  *)

(* a database cell as the Python value the formatter sees *)
PyCell(n) == [t |-> "int", s |-> <<ToString(n)>>]
PyRows(res) ==
    [i \in 1..Len(res) |->
        [j \in 1..Len(res[i]) |-> [k |-> res[i][j].k, v |-> PyCell(res[i][j].v)]]]

(* the f-string both callers build from a success envelope *)
AnswerText(sql_result) ==
    [kind |-> "answer",
     text |-> "Based on your question, I ran the following SQL query:",
     sql |-> WrapLines(sql_result.query.s, DefaultWidth),
     rationale |-> sql_result.rationale,
     results_text |-> format_results_as_markdown_table(PyRows(sql_result.results))]

(* chat: the error branch also fills sources from the envelope *)
chat_SourcesAlways(sql_result) ==
    IF "error" \in DOMAIN sql_result
    THEN [value |-> [response |-> [kind |-> "error",
                                   text |-> "I encountered an error: ",
                                   error |-> sql_result.error],
                     sources |-> <<PyNone>>],
          reads |-> {"error", "query"}]
    ELSE [value |-> [response |-> AnswerText(sql_result),
                     sources |-> <<sql_result.query>>],
          reads |-> {"results", "query", "rationale"}]

(* chat, lines 77-95: response and sources, and the keys it reads *)
chat(sql_result) ==
    IF "error" \in DOMAIN sql_result
    THEN [value |-> [response |-> [kind |-> "error",
                                   text |-> "I encountered an error: ",
                                   error |-> sql_result.error],
                     sources |-> <<>>],
          reads |-> {"error"}]
    ELSE [value |-> [response |-> AnswerText(sql_result),
                     sources |-> <<sql_result.query>>],
          reads |-> {"results", "query", "rationale"}]

(* run_task: the error is reported next to an empty output *)
run_task_ErrorWithOutput(sql_result) ==
    IF "error" \in DOMAIN sql_result
    THEN [value |-> [error |-> sql_result.error, output |-> <<>>],
          reads |-> {"error"}]
    ELSE [value |-> [output |-> AnswerText(sql_result),
                     details |-> [model |-> sql_engine.model]],
          reads |-> {"results", "query", "rationale"}]

(* run_task, lines 40-54: the returned dict, and the keys it reads *)
run_task(sql_result) ==
    IF "error" \in DOMAIN sql_result
    THEN [value |-> [error |-> sql_result.error],
          reads |-> {"error"}]
    ELSE [value |-> [output |-> AnswerText(sql_result),
                     details |-> [model |-> sql_engine.model]],
          reads |-> {"results", "query", "rationale"}]

(* chat formats its response from the envelope, lines 77-89; the writes   *)
(* to the session history are in ChatBegin and ChatFinish                 *)
ChatRespond ==
    /\ pc = "returned"
    /\ reply = NoReply
    /\ reply' = [by |-> "chat", value |-> chat(envelope).value,
                 reads |-> chat(envelope).reads]
    /\ UNCHANGED <<server, process, formatters, environ, ctor_pc, sql_engine,
                   loaded_schema>>

(* run_task resumes after asyncio.run(...) and returns *)
RunTaskRespond ==
    /\ pc = "returned"
    /\ reply = NoReply
    /\ reply' = [by |-> "run_task", value |-> run_task(envelope).value,
                 reads |-> run_task(envelope).reads]
    /\ UNCHANGED <<server, process, formatters, environ, ctor_pc, sql_engine,
                   loaded_schema>>

(* a further call of sql_engine._load_schema(), at any moment *)
LoadSchemaCall ==
    /\ loaded_schema' = load_schema
    /\ UNCHANGED <<server, process, formatters, environ, ctor_pc, sql_engine, reply>>

Next ==
    \/ \E q \in Questions : Invoke(q)
    \/ CallModel
    \/ \E c \in Completions : ModelResponds(c)
    \/ \E d \in ApiErrors : ModelRaises(d)
    \/ Cancel
    \/ Extract
    \/ Parse
    \/ Validate
    \/ Connect
    \/ \E d \in DbErrors : ConnectFails(d)
    \/ ExecuteRejected
    \/ \E d \in DbErrors : ExecuteFails(d)
    \/ \E r \in DbResults : Execute(r)
    \/ Fetch
    \/ Format
    \/ ChatRespond
    \/ RunTaskRespond
    \/ LoadSchemaCall

Spec == Init /\ [][Next]_vars

----------------------------------------------------------------------------
(* session.py: SessionManager.  sessions is a dict: a function whose       *)
(* domain is its key set.  A message is a tuple <<text, is_user>>.         *)

MessageTexts == { [kind |-> "text", text |-> "hi"], [kind |-> "text", text |-> "ok"] }
Messages == { <<m, f>> : m \in MessageTexts, f \in BOOLEAN }

(* add_message, lines 23-25 *)
add_message(store, chat_id, message) ==
    LET created ==
            IF chat_id \notin DOMAIN store
            THEN [k \in DOMAIN store \cup {chat_id} |->
                     IF k = chat_id THEN <<>> ELSE store[k]]
            ELSE store
    IN  [created EXCEPT ![chat_id] = Append(@, message)]

(* tuple(msg) *)
Tuple(msg) == [i \in 1..Len(msg) |-> msg[i]]

(* get_history, line 17: self.sessions.get(chat_id, []) *)
get_history(store, chat_id) ==
    LET found == IF chat_id \in DOMAIN store THEN store[chat_id] ELSE <<>>
    IN  [i \in 1..Len(found) |-> Tuple(found[i])]

(* a SessionManager just constructed *)
InitSession ==
    /\ ProcessIdle
    /\ ServerIdle
    /\ FormattersIdle
    /\ environ \in ServingEnvirons
    /\ ctor_pc = "constructed"
    /\ sql_engine = NewEngine(environ)
    /\ loaded_schema = <<>>
    /\ reply = NoReply

(* session_manager.add_message(chat_id, message) *)
AddMessage(chat_id, message) ==
    /\ Len(added) < MaxCalls
    /\ sessions' = add_message(sessions, chat_id, message)
    /\ added' = Append(added, [id |-> chat_id, message |-> message, by |-> 0])
    /\ UNCHANGED <<process, formatters, environ, ctor_pc, sql_engine,
                   loaded_schema, reply, running, task, database, history_out,
                   startup>>

(* get_history also stores an empty list for an unknown id *)
GetHistory_SetDefault(chat_id) ==
    /\ history_out' = [done |-> TRUE, id |-> chat_id,
                       value |-> get_history(sessions, chat_id)]
    /\ sessions' = IF chat_id \in DOMAIN sessions THEN sessions
                   ELSE [k \in DOMAIN sessions \cup {chat_id} |->
                            IF k = chat_id THEN <<>> ELSE sessions[k]]
    /\ UNCHANGED <<process, formatters, environ, ctor_pc, sql_engine,
                   loaded_schema, reply, running, task, database, added,
                   startup>>

(* the history endpoint: session_manager.get_history(session_id) *)
GetHistory(chat_id) ==
    /\ history_out' = [done |-> TRUE, id |-> chat_id,
                       value |-> get_history(sessions, chat_id)]
    /\ UNCHANGED <<process, formatters, environ, ctor_pc, sql_engine,
                   loaded_schema, reply, running, task, database, sessions,
                   added, startup>>

NextSession ==
    \/ \E id \in SessionIds, m \in Messages : AddMessage(id, m)
    \/ \E id \in SessionIds : GetHistory(id)

SpecSession == InitSession /\ [][NextSession]_vars

----------------------------------------------------------------------------
(* api.py: chat requests as tasks of one event loop.  The variables of     *)
(* process_query hold the frame of the task the loop is executing; a task  *)
(* suspended in `await` keeps its frame in task[t].saved.  A task runs     *)
(* until it awaits or ends; no other task runs in between.                 *)

(* completions a request may receive *)
ServerCompletions ==
    { [choices |-> <<[tool_calls |-> <<>>]>>],
      [choices |-> <<[tool_calls |->
          <<[syntax |-> "object", query |-> PyStr(<<"SELECT", "x">>),
             rationale |-> PyStr(<<"because">>)]>>]>>],
      [choices |-> <<[tool_calls |->
          <<[syntax |-> "object", query |-> PyStr(<<"SELECT", ":p">>),
             rationale |-> PyStr(<<"because">>)]>>]>>],
      [choices |-> <<[tool_calls |->
          <<[syntax |-> "object", query |-> JsonNull,
             rationale |-> PyStr(<<"because">>)]>>]>>] }

(* the question each request asks *)
AskedBy(t) == IF t % 2 = 1 THEN <<"top", "customers">> ELSE <<"late", "orders">>

(* session ids are interchangeable: a request names a session that exists *)
(* or, while there is one, the first id not yet in use                     *)
KnownOrNextId ==
    DOMAIN sessions \cup
        (IF "s1" \notin DOMAIN sessions THEN {"s1"}
         ELSE IF "s2" \notin DOMAIN sessions THEN {"s2"} ELSE {})

(* states of the database: reachable or not, and its answer to a statement *)
Databases ==
    { [connect |-> <<"up">>,
       answer |-> [kind |-> "rows", msg |-> <<>>, columns |-> <<"id", "name">>,
                   rows |-> DbRows(MaxRows, "desc", 2)]],
      [connect |-> <<"up">>,
       answer |-> [kind |-> "error", msg |-> <<"no", "such", "table">>,
                   columns |-> <<>>, rows |-> <<>>]],
      [connect |-> <<"unable", "to", "open", "database", "file">>,
       answer |-> NoResult] }

(* the frame of the task being executed *)
Frame ==
    [pc |-> pc, user_question |-> user_question, completion |-> completion,
     tool_call |-> tool_call, callOutcome |-> callOutcome,
     sql_query |-> sql_query, rationale |-> rationale,
     connection |-> connection, dbResult |-> dbResult, rows |-> rows,
     columns |-> columns, envelope |-> envelope, exc |-> exc,
     modelCalls |-> modelCalls, execAttempts |-> execAttempts,
     connects |-> connects, sentSql |-> sentSql]

(* the loop switches to the frame f *)
Restore(f) ==
    /\ pc' = f.pc
    /\ user_question' = f.user_question
    /\ completion' = f.completion
    /\ tool_call' = f.tool_call
    /\ callOutcome' = f.callOutcome
    /\ sql_query' = f.sql_query
    /\ rationale' = f.rationale
    /\ connection' = f.connection
    /\ dbResult' = f.dbResult
    /\ rows' = f.rows
    /\ columns' = f.columns
    /\ envelope' = f.envelope
    /\ exc' = f.exc
    /\ modelCalls' = f.modelCalls
    /\ execAttempts' = f.execAttempts
    /\ connects' = f.connects
    /\ sentSql' = f.sentSql

(* the user's message as chat stores it *)
UserMessage(q) == <<[kind |-> "question", text |-> q], TRUE>>
AiMessage(response) == <<response, FALSE>>

(* the envelope process_query returns for a model outcome and a database,  *)
(* computed in one piece: lines 284-340                                    *)
process_query(question, arrival, db) ==
    IF arrival.kind = "raised"
    THEN ApiFailure(Exception("APIError", arrival.value))
    ELSE IF Len(arrival.value.choices) = 0
    THEN ApiFailure(Exception("IndexError",
                              <<"list", "index", "out", "of", "range">>))
    ELSE IF ~HasToolCalls(arrival.value.choices[1]) THEN NoToolCallFound
    ELSE LET loaded == JsonLoads(arrival.value.choices[1].tool_calls[1]) IN
    IF loaded.raised # NoException
    THEN IF CatchesJSONDecodeError(loaded.raised)
         THEN MalformedArguments(loaded.raised)
         ELSE ApiFailure(loaded.raised)
    ELSE IF ~HasGet(loaded.value)
    THEN ApiFailure(Exception("AttributeError",
                              <<loaded.value.t, "has", "no", "attribute", "get">>))
    ELSE LET q == GetQuery(loaded.value)
             r == GetRationale(loaded.value) IN
    IF IsIncomplete(q, r) THEN IncompleteResult
    ELSE IF db.connect # <<"up">>
    THEN QueryFailed(Exception("OperationalError", db.connect))
    ELSE IF ~TextAccepts(q)
    THEN QueryFailed(Exception("TypeError",
                         <<"expected", "string", "or", "bytes-like", "object">>))
    ELSE IF BindParams(q.s) # {}
    THEN QueryFailed(Exception("StatementError",
                         <<"A", "value", "is", "required", "for", "bind",
                           "parameter">>))
    ELSE IF db.answer.kind = "error"
    THEN QueryFailed(Exception("OperationalError", db.answer.msg))
    ELSE IF db.answer.kind = "norows"
    THEN QueryFailed(Exception("ResourceClosedError",
                         <<"This", "result", "object", "does", "not",
                           "return", "rows">>))
    ELSE SuccessEnvelope(q, r,
             ResultsTable(db.answer.columns,
                          FetchMany(db.answer.rows, FetchSize)))

(* the server after start-up: engine and session manager exist *)
InitServer ==
    /\ ProcessIdle
    /\ FormattersIdle
    /\ environ \in {e \in ServingEnvirons : ~e["OPENAI_MODEL"].set}
    /\ ctor_pc = "constructed"
    /\ sql_engine = NewEngine(environ)
    /\ loaded_schema = <<>>
    /\ reply = NoReply
    /\ running = 0
    /\ task = [t \in TaskIds |-> NewTask]
    /\ database \in Databases
    /\ sessions = NoSessions
    /\ history_out = NoHistory
    /\ added = <<>>
    /\ startup = "serving"

(* chat, lines 70-75: the user's message is stored and process_query is    *)
(* entered                                                                 *)
ChatBegin(t, sid, q) ==
    /\ running = 0
    /\ task[t].state = "new"
    /\ \A u \in TaskIds : u < t => task[u].state # "new"
    /\ sessions' = add_message(sessions, sid, UserMessage(q))
    /\ added' = Append(added, [id |-> sid, message |-> UserMessage(q), by |-> t])
    /\ task' = [task EXCEPT ![t].state = "started", ![t].session = sid,
                            ![t].question = q]
    /\ running' = t
    /\ requests' = requests + 1
    /\ Restore([IdleFrame EXCEPT !.pc = "call", !.user_question = q])
    /\ UNCHANGED <<formatters, environ, ctor_pc, sql_engine, loaded_schema,
                   reply, database, history_out, startup>>

(* the task reaches `await`: its frame is kept and the loop is free *)
Suspend ==
    /\ running # 0
    /\ pc = "await"
    /\ task[running].state = "started"
    /\ task' = [task EXCEPT ![running].state = "suspended",
                            ![running].saved = Frame]
    /\ running' = 0
    /\ Restore(IdleFrame)
    /\ UNCHANGED <<requests, formatters, environ, ctor_pc, sql_engine,
                   loaded_schema, reply, database, sessions, history_out,
                   added, startup>>

(* the model's answer to a suspended task's call arrives *)
Arrive(t, c) ==
    /\ task[t].state = "suspended"
    /\ task[t].arrival = NoArrival
    /\ task' = [task EXCEPT ![t].arrival = [kind |-> "response", value |-> c]]
    /\ UNCHANGED <<process, formatters, environ, ctor_pc, sql_engine,
                   loaded_schema, reply, running, database, sessions,
                   history_out, added, startup>>

(* the call of a suspended task fails *)
ArriveError(t, detail) ==
    /\ task[t].state = "suspended"
    /\ task[t].arrival = NoArrival
    /\ task' = [task EXCEPT ![t].arrival = [kind |-> "raised", value |-> detail]]
    /\ UNCHANGED <<process, formatters, environ, ctor_pc, sql_engine,
                   loaded_schema, reply, running, database, sessions,
                   history_out, added, startup>>

(* task.cancel() on a suspended task, from a callback of the loop *)
CancelRequest(t) ==
    /\ running = 0
    /\ task[t].state = "suspended"
    /\ ~task[t].cancel
    /\ task' = [task EXCEPT ![t].cancel = TRUE]
    /\ UNCHANGED <<process, formatters, environ, ctor_pc, sql_engine,
                   loaded_schema, reply, running, database, sessions,
                   history_out, added, startup>>

(* the free loop resumes a task whose await can end *)
Resume(t) ==
    /\ running = 0
    /\ task[t].state = "suspended"
    /\ task[t].arrival # NoArrival \/ task[t].cancel
    /\ task' = [task EXCEPT ![t].state = "resumed"]
    /\ running' = t
    /\ Restore(task[t].saved)
    /\ UNCHANGED <<requests, formatters, environ, ctor_pc, sql_engine,
                   loaded_schema, reply, database, sessions, history_out,
                   added, startup>>

(* the resumed task receives the completion of some task's call *)
Deliver_AnyArrival ==
    /\ running # 0
    /\ task[running].state = "resumed"
    /\ ~task[running].cancel
    /\ \E u \in TaskIds :
          /\ task[u].arrival.kind = "response"
          /\ ModelResponds(task[u].arrival.value)

(* `completion = await ...` ends with the completion of the task's call *)
Deliver ==
    /\ running # 0
    /\ task[running].state = "resumed"
    /\ ~task[running].cancel
    /\ task[running].arrival.kind = "response"
    /\ ModelResponds(task[running].arrival.value)

(* the await ends with the error of the task's call *)
DeliverError ==
    /\ running # 0
    /\ task[running].state = "resumed"
    /\ ~task[running].cancel
    /\ task[running].arrival.kind = "raised"
    /\ ModelRaises(task[running].arrival.value)

(* the await ends with CancelledError *)
DeliverCancel ==
    /\ running # 0
    /\ task[running].state = "resumed"
    /\ task[running].cancel
    /\ Cancel

(* chat stores no AI message for an error envelope *)
ChatFinish_SkipsOnError ==
    /\ running # 0
    /\ pc = "returned"
    /\ LET out == chat(envelope)
           sid == task[running].session
       IN  /\ IF "error" \in DOMAIN envelope
              THEN UNCHANGED <<sessions, added>>
              ELSE /\ sessions' = add_message(sessions, sid,
                                              AiMessage(out.value.response))
                   /\ added' = Append(added,
                                  [id |-> sid,
                                   message |-> AiMessage(out.value.response),
                                   by |-> running])
           /\ task' = [task EXCEPT ![running].state = "done",
                                   ![running].final = Frame,
                                   ![running].saw = database,
                                   ![running].returned = out.value]
    /\ running' = 0
    /\ Restore(IdleFrame)
    /\ UNCHANGED <<requests, formatters, environ, ctor_pc, sql_engine,
                   loaded_schema, reply, database, history_out, startup>>

(* chat, lines 77-95: the response is formatted, stored as the AI message  *)
(* and returned                                                            *)
ChatFinish ==
    /\ running # 0
    /\ pc = "returned"
    /\ LET out == chat(envelope)
           sid == task[running].session
       IN  /\ sessions' = add_message(sessions, sid,
                                      AiMessage(out.value.response))
           /\ added' = Append(added,
                              [id |-> sid,
                               message |-> AiMessage(out.value.response),
                               by |-> running])
           /\ task' = [task EXCEPT ![running].state = "done",
                                   ![running].final = Frame,
                                   ![running].saw = database,
                                   ![running].returned = out.value]
    /\ running' = 0
    /\ Restore(IdleFrame)
    /\ UNCHANGED <<requests, formatters, environ, ctor_pc, sql_engine,
                   loaded_schema, reply, database, history_out, startup>>

(* CancelledError leaves process_query and chat: the task ends *)
ChatAbort ==
    /\ running # 0
    /\ pc = "raised"
    /\ task' = [task EXCEPT ![running].state = "cancelled",
                            ![running].final = Frame]
    /\ running' = 0
    /\ Restore(IdleFrame)
    /\ UNCHANGED <<requests, formatters, environ, ctor_pc, sql_engine,
                   loaded_schema, reply, database, sessions, history_out,
                   added, startup>>

NextServer ==
    \/ \E t \in TaskIds, sid \in KnownOrNextId : ChatBegin(t, sid, AskedBy(t))
    \/ CallModel
    \/ Suspend
    \/ \E t \in TaskIds, c \in ServerCompletions : Arrive(t, c)
    \/ \E t \in TaskIds : ArriveError(t, <<"timeout">>)
    \/ \E t \in TaskIds : CancelRequest(t)
    \/ \E t \in TaskIds : Resume(t)
    \/ Deliver
    \/ DeliverError
    \/ DeliverCancel
    \/ Extract
    \/ Parse
    \/ Validate
    \/ database.connect = <<"up">> /\ Connect
    \/ database.connect # <<"up">> /\ ConnectFails(database.connect)
    \/ ExecuteRejected
    \/ database.answer.kind = "error" /\ ExecuteFails(database.answer.msg)
    \/ database.answer.kind # "error" /\ Execute(database.answer)
    \/ Fetch
    \/ Format
    \/ ChatFinish
    \/ ChatAbort

SpecServer == InitServer /\ [][NextServer]_vars

----------------------------------------------------------------------------
(* Properties of process_query *)

Returned == pc = "returned"
IsError == Returned /\ DOMAIN envelope = {"error"}
IsSuccess == Returned /\ DOMAIN envelope = {"query", "rationale", "results"}

(* a JSON field that is absent, null or the empty string *)
EmptyOrMissing(field) ==
    \/ field.t \in {"missing", "null"}
    \/ field.t = "str" /\ field.s = <<>>

Min(a, b) == IF a < b THEN a ELSE b

(* C1: every value process_query returns is a mapping with only the key   *)
(* 'error' or a mapping with exactly 'query', 'rationale' and 'results'.   *)
C1_EnvelopeShape ==
    Returned =>
        \/ DOMAIN envelope = {"error"}
        \/ DOMAIN envelope = {"query", "rationale", "results"}

C1_Witness ==
    /\ IsSuccess
    /\ Len(envelope.results) > 0
    /\ requests = 2

(* C2: no ordinary exception leaves process_query: a failure of the call,  *)
(* the extraction, the parsing or the execution ends in an error envelope; *)
(* only a cancellation of the task propagates.                             *)
C2_NoExceptionCrosses ==
    /\ pc = "raised" =>
          /\ exc.type \notin OrdinaryExceptions
          /\ callOutcome.kind = "cancelled"
    /\ Returned => exc = NoException
    /\ (Returned /\ callOutcome.kind = "response" /\ completion.choices = <<>>)
          => DOMAIN envelope = {"error"}
    /\ (Returned /\ dbResult.kind \in {"error", "norows"})
          => DOMAIN envelope = {"error"}

C2_Witness ==
    /\ IsError
    /\ callOutcome.kind = "response"
    /\ completion.choices = <<>>

(* C3: a query yielding n rows gives exactly min(n, 5) result rows, the    *)
(* first min(n, 5) rows of the database result in the database's order.    *)
C3_RowCap ==
    IsSuccess =>
        /\ Len(envelope.results) = Min(Len(dbResult.rows), 5)
        /\ \A i \in 1..Len(envelope.results) :
              envelope.results[i] = DictZip(dbResult.columns, dbResult.rows[i])

C3_Witness ==
    /\ IsSuccess
    /\ Len(dbResult.rows) > 5
    /\ Len(envelope.results) = 5
    /\ dbResult.rows[1][1] > dbResult.rows[2][1]

(* C4: a parsed payload with an empty or missing query or rationale gives  *)
(* the missing-query-or-rationale error, and that invocation opens no      *)
(* connection and executes no SQL.                                         *)
C4_ValidationShortCircuit ==
    ( /\ tool_call.syntax = "object"
      /\ EmptyOrMissing(tool_call.query) \/ EmptyOrMissing(tool_call.rationale) )
    =>
        /\ pc \in {"parse", "validate", "returned"}
        /\ connection = "none"
        /\ connects = 0
        /\ execAttempts = 0
        /\ sentSql = <<>>
        /\ Returned =>
              envelope = [error |->
                  [msg |-> "Missing query or rationale in the response",
                   detail |-> <<>>]]

C4_Witness ==
    /\ IsError
    /\ tool_call.syntax = "object"
    /\ tool_call.query = PyStr(<<>>)
    /\ tool_call.rationale = PyStr(<<"because">>)

(* C5: a response whose message carries no tool call gives the fixed error *)
(* text 'No tool calls found in the response', whatever the question, with *)
(* nothing of the question in it, and no SQL is executed.                  *)
C5_NoToolCall ==
    ( /\ callOutcome.kind = "response"
      /\ Len(completion.choices) > 0
      /\ Len(completion.choices[1].tool_calls) = 0 )
    =>
        /\ pc \in {"extract", "returned"}
        /\ connects = 0
        /\ execAttempts = 0
        /\ sentSql = <<>>
        /\ Returned =>
              envelope = [error |->
                  [msg |-> "No tool calls found in the response",
                   detail |-> <<>>]]

C5_Witness ==
    /\ IsError
    /\ callOutcome.kind = "response"
    /\ Len(completion.choices) > 0
    /\ Len(completion.choices[1].tool_calls) = 0
    /\ user_question = <<"late", "orders">>

(* C6: when the completion call raises, process_query returns the error    *)
(* 'OpenAI API call failed: <the exception's message>' and nothing is      *)
(* parsed, validated or executed.                                          *)
C6_ApiFailure ==
    callOutcome.kind = "raised" =>
        /\ Returned
        /\ envelope = [error |->
              [msg |-> "OpenAI API call failed: ", detail |-> callOutcome.msg]]
        /\ tool_call = NoToolCall
        /\ sql_query = PyNone
        /\ rationale = PyNone
        /\ connects = 0
        /\ execAttempts = 0
        /\ sentSql = <<>>

C6_Witness ==
    /\ IsError
    /\ callOutcome = [kind |-> "raised", msg |-> <<"rate", "limit">>]

(* C7: arguments that are not the expected structured payload -- text that *)
(* is not JSON, or JSON that is not an object -- give the error 'Failed to *)
(* parse OpenAI response: <detail>' and no SQL is executed.                *)
C7_MalformedArguments ==
    ( /\ Returned
      /\ tool_call.syntax \in {"invalid", "list", "string", "number", "null"} )
    =>
        /\ DOMAIN envelope = {"error"}
        /\ envelope.error.msg = "Failed to parse OpenAI response: "
        /\ sentSql = <<>>

(* C8: when the database raises on the model's SQL, process_query returns  *)
(* 'SQL execution failed: <the driver's message>', does not raise, and the *)
(* statement was sent once only.                                           *)
C8_ExecutionFailureIsolation ==
    dbResult.kind = "error" =>
        /\ Returned
        /\ envelope = [error |->
              [msg |-> "SQL execution failed: ", detail |-> dbResult.msg]]
        /\ Len(sentSql) = 1
        /\ execAttempts = 1
        /\ connection = "closed"

C8_Witness ==
    /\ IsError
    /\ dbResult.kind = "error"
    /\ dbResult.msg = <<"no", "such", "table">>

(* position of a stage in the order of process_query *)
Rank(p) ==
    CASE p = "idle" -> 0
      [] p = "call" -> 1
      [] p = "await" -> 2
      [] p = "extract" -> 3
      [] p = "parse" -> 4
      [] p = "validate" -> 5
      [] p = "connect" -> 6
      [] p = "execute" -> 7
      [] p = "fetch" -> 8
      [] p = "format" -> 9
      [] OTHER -> 10

(* the model returned a payload that passes validation *)
GenerationValid ==
    /\ tool_call.syntax = "object"
    /\ ~EmptyOrMissing(tool_call.query)
    /\ tool_call.query # PyInt(<<"0">>)
    /\ ~EmptyOrMissing(tool_call.rationale)

(* C9: an invocation issues exactly one completion call and at most one    *)
(* execution attempt (exactly one when generation and validation succeed); *)
(* every step of the invocation moves to a later stage, so nothing is      *)
(* retried or revisited.                                                   *)
C9_SingleShot ==
    /\ [](/\ modelCalls <= 1
          /\ execAttempts <= 1
          /\ connects <= 1
          /\ Len(sentSql) <= 1
          /\ pc \in {"returned", "raised"} => modelCalls = 1
          /\ Returned => (execAttempts = 1 <=> GenerationValid))
    /\ [][pc' = "call" \/ Rank(pc') > Rank(pc)]_process

C9_Witness ==
    /\ Returned
    /\ requests = 2
    /\ modelCalls = 1
    /\ execAttempts = 1
    /\ Len(sentSql) = 1

(* C10: in a success envelope 'query' and 'rationale' are the tool call's  *)
(* fields unchanged, and the SQL text sent to the database is that query   *)
(* string, not rewritten.                                                  *)
C10_VerbatimPassThrough ==
    IsSuccess =>
        /\ envelope.query = tool_call.query
        /\ envelope.rationale = tool_call.rationale
        /\ sentSql = << envelope.query.s >>

(* C11: a connection opened by an invocation is closed on every way out   *)
(* of the execute stage -- success, execution error, any other exception   *)
(* -- so none is open when process_query returns, request after request.   *)
C11_NoConnectionLeak ==
    /\ pc \in {"returned", "raised", "format"} => connection # "open"
    /\ connection = "open" => pc \in {"execute", "fetch"}
    /\ (pc \in {"returned", "format"} /\ connects > 0) => connection = "closed"

C11_Witness ==
    /\ IsError
    /\ requests = 2
    /\ connects = 1
    /\ connection = "closed"
    /\ dbResult.kind = "norows"

(* first and last position of a name in a projection list *)
FirstIndex(cols, name) ==
    CHOOSE j \in 1..Len(cols) :
        cols[j] = name /\ \A h \in 1..(j - 1) : cols[h] # name
LastIndex(cols, name) ==
    CHOOSE j \in 1..Len(cols) :
        cols[j] = name /\ \A h \in (j + 1)..Len(cols) : cols[h] # name

(* C12 as claimed: every result row has exactly one entry per column of    *)
(* the projection list, keyed by the column names in projection order,     *)
(* also when two columns have the same name.                               *)
C12_RowShapeAsClaimed ==
    IsSuccess =>
        \A i \in 1..Len(envelope.results) :
            /\ Len(envelope.results[i]) = Len(dbResult.columns)
            /\ \A j \in 1..Len(envelope.results[i]) :
                  envelope.results[i][j].k = dbResult.columns[j]

(* C12 amended: every result row has exactly one entry per distinct column *)
(* name, in the order in which the names first occur in the projection     *)
(* list, holding the cell of the last column of that name; with distinct   *)
(* names that is one entry per column, in projection order, with its cell. *)
C12_RowShape ==
    IsSuccess =>
        \A i \in 1..Len(envelope.results) :
            LET row == envelope.results[i]
                cols == dbResult.columns
                names == {cols[j] : j \in 1..Len(cols)}
            IN  /\ Len(row) = Cardinality(names)
                /\ \A e \in 1..Len(row) :
                      /\ row[e].k \in names
                      /\ row[e].v = dbResult.rows[i][LastIndex(cols, row[e].k)]
                /\ \A e, f \in 1..Len(row) :
                      e < f => FirstIndex(cols, row[e].k) < FirstIndex(cols, row[f].k)

C12_Witness ==
    /\ IsSuccess
    /\ dbResult.columns = <<"id", "id">>
    /\ Len(envelope.results) > 1
    /\ Len(envelope.results[1]) = 1

(* C13: in a success envelope 'query' and 'rationale' are non-empty        *)
(* strings, whatever JSON values the model put in the two fields.          *)
C13_TypedSuccessEnvelope ==
    IsSuccess =>
        /\ envelope.query.t = "str"
        /\ envelope.query.s # <<>>
        /\ envelope.rationale.t = "str"
        /\ envelope.rationale.s # <<>>

(* C16: with OPENAI_API_KEY unset or empty the constructor fails with an   *)
(* error before a database engine or a schema is set up; with the key set, *)
(* an unset OPENAI_MODEL or DATABASE_PATH takes the default 'gpt-4' or     *)
(* 'sqlite:///data/windforest.db' and construction goes through, and a set *)
(* value is always the one used.                                           *)
C16_EngineConstruction ==
    LET key == environ["OPENAI_API_KEY"]
        model == environ["OPENAI_MODEL"]
        db == environ["DATABASE_PATH"]
    IN  /\ (~key.set \/ key.v = "") =>
              /\ ctor_pc \in {"init", "ValueError"}
              /\ sql_engine = NoEngine
        /\ ctor_pc = "ValueError" => (~key.set \/ key.v = "")
        /\ (key.set /\ key.v # "" /\ ~db.set) =>
              ctor_pc \notin {"ValueError", "ArgumentError"}
        /\ "engine" \in sql_engine.attrs =>
              sql_engine.engine =
                  IF db.set THEN db.v ELSE "sqlite:///data/windforest.db"
        /\ "model" \in sql_engine.attrs =>
              sql_engine.model = IF model.set THEN model.v ELSE "gpt-4"
        /\ ctor_pc = "constructed" =>
              /\ sql_engine.attrs = {"client", "engine", "model", "schema"}
              /\ sql_engine.client = key.v

C16_Witness ==
    /\ ctor_pc = "constructed"
    /\ environ["OPENAI_API_KEY"] = EnvSet("sk-b")
    /\ ~environ["OPENAI_MODEL"].set
    /\ ~environ["DATABASE_PATH"].set
    /\ sql_engine.model = "gpt-4"
    /\ sql_engine.engine = "sqlite:///data/windforest.db"

(* C14: chat answers an error envelope with 'I encountered an error:       *)
(* <error>' and no sources, reading only 'error'; it answers a success     *)
(* envelope with the wrapped query, the rationale and the rendered results *)
(* and with the envelope's query as the one source.                        *)
C14_ChatResult ==
    reply.by = "chat" =>
        IF "error" \in DOMAIN envelope
        THEN /\ reply.value.response =
                    [kind |-> "error", text |-> "I encountered an error: ",
                     error |-> envelope.error]
             /\ reply.value.sources = <<>>
             /\ reply.reads \cap {"query", "rationale", "results"} = {}
        ELSE /\ reply.value.sources = <<envelope.query>>
             /\ reply.value.response.kind = "answer"
             /\ reply.value.response.sql = WrapLines(envelope.query.s, 60)
             /\ reply.value.response.rationale = envelope.rationale
             /\ reply.value.response.results_text =
                    format_results_as_markdown_table(PyRows(envelope.results))

C14_Witness ==
    /\ reply.by = "chat"
    /\ IsSuccess
    /\ Len(envelope.results) = 5
    /\ Len(reply.value.sources) = 1

InnerCells(line) ==
    LET pieces == SplitOn(line, "|") IN
    IF Len(pieces) < 2 THEN <<>> ELSE SubSeq(pieces, 2, Len(pieces) - 1)

(* C17: with no results the renderer returns the 'No results found.'       *)
(* message; otherwise a table with one header line listing the keys of the *)
(* first row in order, one separator line with one '---' per header, and   *)
(* exactly one data line per result row, each with one cell per header.    *)
C17_ResultsRendering ==
    table_out.done =>
        IF results = <<>>
        THEN table_out.text = <<"\n", "**Results:**", "No results found.">>
        ELSE LET lines == SplitOn(table_out.text, "\n")
                 headers == Keys(results[1])
             IN  /\ Len(lines) = Len(results) + 5
                 /\ lines[1] = <<>>
                 /\ lines[2] = <<"**Results:**">>
                 /\ InnerCells(lines[3]) = [h \in 1..Len(headers) |-> <<headers[h]>>]
                 /\ InnerCells(lines[4]) = [h \in 1..Len(headers) |-> <<"---">>]
                 /\ \A i \in 1..Len(results) :
                       Len(InnerCells(lines[4 + i])) = Len(headers)
                 /\ lines[Len(lines)] = <<>>

(* C18: every line of wrap_sql's output is at most width characters long   *)
(* unless the line is a single word that is itself longer than width.      *)
C18_LineWidth ==
    wrap_out.done =>
        LET lines == SplitOn(wrap_out.text, "\n") IN
        \A i \in 1..Len(lines) :
            \/ Len(lines[i]) <= wrap_width
            \/ /\ Len(Split(lines[i])) = 1
               /\ Split(lines[i])[1] = lines[i]
               /\ Len(lines[i]) > wrap_width

C18_Witness ==
    /\ wrap_out.done
    /\ \E i \in 1..Len(SplitOn(wrap_out.text, "\n")) :
          LET line == SplitOn(wrap_out.text, "\n")[i] IN
          /\ Len(Split(line)) = 2
          /\ Len(line) = wrap_width

(* C19: every call of _load_schema returns the same text, and the engine's *)
(* schema field holds that text from construction on, never changed.       *)
C19_SchemaIdempotence ==
    /\ [](/\ sql_engine.schema # <<>>
          /\ loaded_schema # <<>> => loaded_schema = sql_engine.schema)
    /\ [][sql_engine'.schema = sql_engine.schema]_vars

C19_Witness ==
    /\ Returned
    /\ requests = 2
    /\ loaded_schema # <<>>
    /\ loaded_schema = sql_engine.schema

(* C20: the error kind names the stage that failed: 'OpenAI API call       *)
(* failed' only when the completion call itself raised, 'SQL execution     *)
(* failed' only for a failure inside the execute stage.                    *)
C20_StageAttribution ==
    IsError =>
        /\ envelope.error.msg = "OpenAI API call failed: "
              => callOutcome.kind = "raised"
        /\ envelope.error.msg = "SQL execution failed: "
              => execAttempts = 1

(* the stage of process_query a position belongs to *)
Stage(p) ==
    CASE p = "idle" -> 0
      [] p = "call" -> 1
      [] p \in {"await", "extract", "parse"} -> 2
      [] p = "validate" -> 3
      [] p \in {"connect", "execute", "fetch", "format"} -> 4
      [] OTHER -> 5

(* C21: the stages run in the order BUILD_PROMPT, GENERATE, VALIDATE,      *)
(* EXECUTE, DONE; the execution starts only after the model response has   *)
(* been received, parsed and validated; after an error envelope no later   *)
(* stage of that invocation runs.                                          *)
C21_StageOrder ==
    /\ []((Stage(pc) = 4 \/ execAttempts > 0 \/ connects > 0 \/ sentSql # <<>>)
             => /\ callOutcome.kind = "response"
                /\ tool_call.syntax = "object"
                /\ ~IsIncomplete(sql_query, rationale))
    /\ [](DOMAIN envelope = {"error"} => pc = "returned")
    /\ [][\/ pc' = "call"
          \/ /\ pc # "returned"
             /\ DOMAIN envelope # {"error"}
             /\ \/ Stage(pc') \in {Stage(pc), Stage(pc) + 1}
                \/ pc' \in {"returned", "raised"}]_process

C21_Witness ==
    /\ IsError
    /\ envelope.error.msg = "SQL execution failed: "
    /\ callOutcome.kind = "response"
    /\ Stage(pc) = 5
    /\ requests = 1

(* the messages added under an id so far, in the order of the calls *)
RECURSIVE AddedFrom(_, _, _)
AddedFrom(id, i, acc) ==
    IF i > Len(added) THEN acc
    ELSE AddedFrom(id, i + 1,
                   IF added[i].id = id THEN Append(acc, added[i].message) ELSE acc)
AddedUnder(id) == AddedFrom(id, 1, <<>>)

(* C27: get_history(id) returns exactly the messages added under that id,  *)
(* in the order they were added; adding to one session leaves the others   *)
(* unchanged; get_history changes no stored state and creates no entry for *)
(* an unknown id, for which it returns the empty list.                     *)
C27_SessionStore ==
    /\ [](/\ \A id \in SessionIds :
                get_history(sessions, id) = AddedUnder(id)
          /\ DOMAIN sessions = {added[i].id : i \in 1..Len(added)})
    /\ [][history_out' # history_out
             => /\ sessions' = sessions
                /\ history_out'.value = AddedUnder(history_out'.id)]_vars
    /\ [][\A id \in SessionIds :
             (added' # added /\ added'[Len(added')].id # id)
                => get_history(sessions', id) = get_history(sessions, id)]_vars

C27_Witness ==
    /\ history_out.done
    /\ history_out.id = "s1"
    /\ Len(history_out.value) = 2
    /\ Len(AddedUnder("s2")) = 2
    /\ "s2" \in DOMAIN sessions

(* C22: process_query writes no field of the engine, and under every       *)
(* interleaving of concurrent requests each request's envelope is the one  *)
(* it would get alone from the same question, model outcome and database;  *)
(* requests may complete in any order.                                     *)
C22_RequestIndependence ==
    /\ [](\A t \in TaskIds :
             task[t].state = "done"
                => task[t].final.envelope =
                      process_query(task[t].question, task[t].arrival, task[t].saw))
    /\ [](sql_engine = NewEngine(environ))
    /\ [][sql_engine' = sql_engine]_vars

C22_Witness ==
    /\ task[2].state = "done"
    /\ task[1].state = "suspended"
    /\ task[1].arrival.kind = "response"
    /\ task[2].arrival.kind = "response"
    /\ task[1].arrival # task[2].arrival
    /\ DOMAIN task[2].final.envelope = {"query", "rationale", "results"}

(* C23: while one request is in its database execution step, another       *)
(* request whose model response has arrived can take its next step.        *)
C23_DatabaseStepDoesNotBlock ==
    \A t, u \in TaskIds :
        (/\ running = t
         /\ pc \in {"execute", "fetch"}
         /\ connection = "open"
         /\ task[u].state = "suspended"
         /\ task[u].arrival.kind = "response")
            => ENABLED Resume(u)

(* C24: a cancellation takes effect only at the await of the completion    *)
(* call, when the invocation has opened no connection and sent no SQL; no  *)
(* connection of a cancelled invocation is left open.                      *)
C24_Cancellation ==
    /\ exc.type = "CancelledError"
          => /\ callOutcome.kind = "cancelled"
             /\ completion = NoCompletion
             /\ connects = 0
             /\ execAttempts = 0
             /\ sentSql = <<>>
             /\ connection = "none"
    /\ \A t \in TaskIds :
          /\ task[t].state = "cancelled"
                => /\ task[t].final.pc = "raised"
                   /\ task[t].final.exc.type = "CancelledError"
                   /\ task[t].final.callOutcome.kind = "cancelled"
                   /\ task[t].final.connects = 0
                   /\ task[t].final.sentSql = <<>>
                   /\ task[t].final.connection = "none"
          /\ task[t].cancel
                => /\ task[t].saved.connection = "none"
                   /\ task[t].state \in {"suspended", "resumed", "cancelled"}
                   /\ (running = t => connection = "none")

C24_Witness ==
    /\ task[1].state = "cancelled"
    /\ task[1].arrival.kind = "response"
    /\ task[2].state = "done"
    /\ task[2].final.connects = 1
    /\ task[2].final.connection = "closed"

(* the positions in the log of the add_message calls made by request t *)
AddsBy(t) == {i \in 1..Len(added) : added[i].by = t}

(* C25: a chat request stores the user's message (flag True) before the    *)
(* engine is called and the AI response (flag False) after it returns, for *)
(* error and success envelopes alike: a completed request has added two    *)
(* entries, user before AI; a session never has more AI than user entries. *)
C25_ChatHistory ==
    /\ \A t \in TaskIds :
          /\ task[t].state = "new" => AddsBy(t) = {}
          /\ task[t].state \in {"started", "suspended", "resumed", "cancelled"}
                => \E i \in 1..Len(added) :
                      /\ AddsBy(t) = {i}
                      /\ added[i].id = task[t].session
                      /\ added[i].message = UserMessage(task[t].question)
          /\ task[t].state = "done"
                => \E i, j \in 1..Len(added) :
                      /\ i < j
                      /\ AddsBy(t) = {i, j}
                      /\ added[i].id = task[t].session
                      /\ added[j].id = task[t].session
                      /\ added[i].message = UserMessage(task[t].question)
                      /\ added[j].message =
                             AiMessage(chat(task[t].final.envelope).value.response)
    /\ (running # 0 /\ pc # "idle") => AddsBy(running) # {}
    /\ \A sid \in SessionIds : get_history(sessions, sid) = AddedUnder(sid)
    /\ \A sid \in DOMAIN sessions :
          Cardinality({i \in 1..Len(sessions[sid]) : ~sessions[sid][i][2]})
             <= Cardinality({i \in 1..Len(sessions[sid]) : sessions[sid][i][2]})

C25_Witness ==
    /\ task[1].state = "done"
    /\ task[2].state = "done"
    /\ DOMAIN task[1].final.envelope = {"error"}
    /\ DOMAIN task[2].final.envelope = {"query", "rationale", "results"}
    /\ task[1].session = task[2].session

(* C26: when all requests have completed, every session's history is a     *)
(* sequence of adjacent pairs: entries alternate user, AI, and each AI     *)
(* response directly follows the user message it answers.                  *)
C26_Adjacency ==
    (\A t \in TaskIds : task[t].state \in {"new", "done"}) =>
        \A sid \in DOMAIN sessions :
            LET calls == SelectSeq(added, LAMBDA a : a.id = sid) IN
            \A i \in 1..Len(calls) :
                /\ calls[i].message[2] = (i % 2 = 1)
                /\ i % 2 = 0 => calls[i].by = calls[i - 1].by

(* C28: with OPENAI_API_KEY set, loading the api module constructs the     *)
(* engine, calls init_tracing in a way its definition accepts, constructs  *)
(* the session manager and ends without an error.                          *)
C28_StartupServes ==
    (~ApiKeyMissing(environ) /\ ctor_pc = "constructed")
        => startup \in {"engine", "sessions", "serving"}

(* C29: splitting wrap_sql's output on whitespace gives the same words in  *)
(* the same order as splitting its input, and wrapping the output again    *)
(* with the same width returns it unchanged.                               *)
C29_WordPreservation ==
    wrap_out.done =>
        /\ Split(wrap_out.text) = Split(sql)
        /\ wrap_sql(wrap_out.text, wrap_width) = wrap_out.text

C29_Witness ==
    /\ wrap_out.done
    /\ Len(Split(sql)) = 3
    /\ Len(SplitOn(wrap_out.text, "\n")) = 2
    /\ wrap_out.text # sql
    /\ \E i \in 1..Len(sql) : sql[i] = "\n"

(* C30: wrap_sql breaks every line, the first included, by one rule: a     *)
(* word starts a new line exactly when it would not fit on the current     *)
(* line after one space; the output of a non-empty input has no empty      *)
(* line.                                                                   *)
C30_UniformGreedy ==
    (wrap_out.done /\ Split(sql) # <<>>) =>
        LET lines == SplitOn(wrap_out.text, "\n") IN
        /\ \A i \in 1..Len(lines) : lines[i] # <<>>
        /\ \A i \in 1..Len(lines) :
              Len(lines[i]) <= wrap_width \/ Len(Split(lines[i])) = 1
        /\ \A i \in 1..(Len(lines) - 1) :
              Len(lines[i]) + 1 + Len(Split(lines[i + 1])[1]) > wrap_width

====
